---- MODULE Spec2Model ----
(***************************************************************************)
(* A model of the robu.in specification scrapers: scrape_product.py (the   *)
(* motor scraper and the shared text helpers) and scrape_battery.py.       *)
(*                                                                         *)
(* Text is modelled by TLA+ strings, on which TLC evaluates Len, SubSeq    *)
(* and \o, so that the helpers below work character by character as the   *)
(* Python code and its regular expressions do.  Python dicts are modelled  *)
(* as sequences of <<key, value>> pairs in insertion order, because the    *)
(* field resolvers iterate over .items() and stop at the first hit.        *)
(***************************************************************************)
EXTENDS Integers, Sequences, FiniteSets, TLC

VARIABLES
    pc,            \* position of the running call
    call,          \* the running call: the scraper and its url argument
    page,          \* the fetched document, as the parser's queries answer
    product_name,  \* scrape_*: local product_name
    stock_status,  \* scrape_*: local stock_status
    price,         \* scrape_*: local price
    general_info,  \* scrape_*: local general_info (list harvest)
    spec_table,    \* scrape_*: local spec_table (table harvest)
    regex_specs,   \* scrape_product: local regex_specs (regex harvest)
    all_specs,     \* scrape_*: local all_specs (the merged map)
    result,        \* what the call returned
    text,          \* argument of a direct clean_number call
    cleaned,       \* its return value
    retries,       \* fetch_page: argument retries
    verbose,       \* fetch_page: argument verbose
    attempt,       \* fetch_page: loop variable attempt
    outcomes,      \* fetch_page: what each scraper.get so far came to
    slept,         \* fetch_page: the time.sleep calls so far, in seconds
    printed,       \* fetch_page: number of lines printed
    html,          \* what fetch_page returned
    csv_file,      \* the sink: whether the file exists, and its lines
    written,       \* every record handed to append_to_csv so far, in order
    urls,          \* batch: the urls to scrape (new_urls of main)
    max_workers,   \* batch: size of the thread pool
    futures,       \* batch: for each url, how far its scrape has come
    scraped_data,  \* batch: the list of records being collected
    all_product_urls,  \* main: the product urls of the listing pages
    existing_urls,     \* main: the urls read from the sink
    listings       \* main: all_product_urls of every run so far, in order

\* The state of a fetch_page call.
fetchVars == <<retries, verbose, attempt, outcomes, slept, printed, html>>

\* The sink of the batch drivers scrape_motors and scrape_batteries.
sinkVars == <<csv_file, written>>

\* The state of one batch of scrapes.
batchVars == <<urls, max_workers, futures, scraped_data>>

\* The state of main, over its runs.
mainVars == <<all_product_urls, existing_urls, listings>>

driverVars == <<sinkVars, batchVars, mainVars>>

vars == <<pc, call, page, product_name, stock_status, price, general_info,
          spec_table, regex_specs, all_specs, result, text, cleaned, fetchVars,
          driverVars>>

(***************************************************************************)
(* Bounds of the model.                                                    *)
(***************************************************************************)
\* Longest text handed to a direct clean_number call.
MaxLen == 4
\* Most harvested entries (list items plus table rows) on one page.
MaxEntries == 3

(***************************************************************************)
(* Characters and elementary string operations (Python str methods).       *)
(***************************************************************************)
\* str.strip() and the regex class \s, restricted to the characters used here.
Whitespace == {" ", "\t", "\n"}

\* The regex class \d, ASCII part.
Digits == {"0", "1", "2", "3", "4", "5", "6", "7", "8", "9"}

CharAt(s, i) == SubSeq(s, i, i)

LowerChar(c) ==
    CASE c = "A" -> "a" [] c = "B" -> "b" [] c = "C" -> "c" [] c = "D" -> "d"
      [] c = "E" -> "e" [] c = "F" -> "f" [] c = "G" -> "g" [] c = "H" -> "h"
      [] c = "I" -> "i" [] c = "J" -> "j" [] c = "K" -> "k" [] c = "L" -> "l"
      [] c = "M" -> "m" [] c = "N" -> "n" [] c = "O" -> "o" [] c = "P" -> "p"
      [] c = "Q" -> "q" [] c = "R" -> "r" [] c = "S" -> "s" [] c = "T" -> "t"
      [] c = "U" -> "u" [] c = "V" -> "v" [] c = "W" -> "w" [] c = "X" -> "x"
      [] c = "Y" -> "y" [] c = "Z" -> "z" [] OTHER -> c

RECURSIVE Lower(_)
\* str.lower()
Lower(s) == IF s = "" THEN "" ELSE LowerChar(CharAt(s, 1)) \o Lower(Tail(s))

\* The Python test `t in s` on strings.
Contains(s, t) ==
    \E i \in 0..(Len(s) - Len(t)) : SubSeq(s, i + 1, i + Len(t)) = t

\* str.find(t): the least 1-based index at which t occurs in s, 0 when none.
Find(s, t) ==
    IF Contains(s, t)
    THEN CHOOSE i \in 1..(Len(s) - Len(t) + 1) :
            /\ SubSeq(s, i, i + Len(t) - 1) = t
            /\ \A j \in 1..(i - 1) : SubSeq(s, j, j + Len(t) - 1) # t
    ELSE 0

RECURSIVE LStrip(_)
LStrip(s) ==
    IF s # "" /\ CharAt(s, 1) \in Whitespace THEN LStrip(Tail(s)) ELSE s

RECURSIVE RStrip(_)
RStrip(s) ==
    IF s # "" /\ CharAt(s, Len(s)) \in Whitespace
    THEN RStrip(SubSeq(s, 1, Len(s) - 1)) ELSE s

\* str.strip()
Strip(s) == RStrip(LStrip(s))

RECURSIVE RStripChar(_, _)
\* str.rstrip(c) for a one-character c.
RStripChar(s, c) ==
    IF s # "" /\ CharAt(s, Len(s)) = c
    THEN RStripChar(SubSeq(s, 1, Len(s) - 1), c) ELSE s

(***************************************************************************)
(* clean_number and clean_value.                                           *)
(***************************************************************************)
\* The characters of the regex class [\d.]
NumChars == Digits \cup {"."}

RECURSIVE SkipSpaces(_, _)
\* \s* from position i: the first position at or after i holding no
\* whitespace (Len(s) + 1 at the end of the text).
SkipSpaces(s, i) ==
    IF i <= Len(s) /\ CharAt(s, i) \in Whitespace THEN SkipSpaces(s, i + 1) ELSE i

RECURSIVE RunEnd(_, _)
\* Greedy [\d.]+ from position i: the last position of the run starting at i.
RunEnd(s, i) ==
    IF i + 1 <= Len(s) /\ CharAt(s, i + 1) \in NumChars THEN RunEnd(s, i + 1) ELSE i

\* Where group 1 starts when [<>~]?\s*([\d.]+) is matched at position i,
\* 0 when the pattern does not match there.  The optional prefix is tried
\* first and given up by backtracking.
GroupStartAt(s, i) ==
    LET withPrefix == IF CharAt(s, i) \in {"<", ">", "~"}
                      THEN SkipSpaces(s, i + 1) ELSE 0
        noPrefix   == SkipSpaces(s, i)
        ok(p)      == p >= 1 /\ p <= Len(s) /\ CharAt(s, p) \in NumChars
    IN  IF ok(withPrefix) THEN withPrefix
        ELSE IF ok(noPrefix) THEN noPrefix
        ELSE 0

\* re.search: the leftmost position at which the pattern matches, 0 if none.
SearchStart(s) ==
    IF \E i \in 1..Len(s) : GroupStartAt(s, i) # 0
    THEN CHOOSE i \in 1..Len(s) :
            /\ GroupStartAt(s, i) # 0
            /\ \A j \in 1..(i - 1) : GroupStartAt(s, j) = 0
    ELSE 0

clean_number(t) ==
    IF t = "" THEN ""
    ELSE LET s == Strip(t)
             i == SearchStart(s)
             g == GroupStartAt(s, i)
         IN  IF i = 0 THEN s ELSE SubSeq(s, g, RunEnd(s, g))

RECURSIVE CollapseSpaces(_)
\* re.sub(r'\s+', ' ', s)
CollapseSpaces(s) ==
    IF s = "" THEN ""
    ELSE IF CharAt(s, 1) \in Whitespace
         THEN " " \o CollapseSpaces(LStrip(s))
         ELSE CharAt(s, 1) \o CollapseSpaces(Tail(s))

clean_value(t) == IF t = "" THEN "" ELSE CollapseSpaces(Strip(t))

(***************************************************************************)
(* Python float(), str(float) and int(float) on the decimal texts that     *)
(* clean_number produces.  A parsed number is kept exactly, as mantissa m  *)
(* and a count e of fraction digits (value m / 10^e).  Binary rounding of  *)
(* IEEE doubles is not modelled: the value texts of the pages below are    *)
(* ones on which the exact quotient and product print as CPython prints    *)
(* the double.                                                             *)
(***************************************************************************)
DigitVal(c) ==
    CASE c = "0" -> 0 [] c = "1" -> 1 [] c = "2" -> 2 [] c = "3" -> 3
      [] c = "4" -> 4 [] c = "5" -> 5 [] c = "6" -> 6 [] c = "7" -> 7
      [] c = "8" -> 8 [] c = "9" -> 9

DigitChar(d) ==
    CASE d = 0 -> "0" [] d = 1 -> "1" [] d = 2 -> "2" [] d = 3 -> "3"
      [] d = 4 -> "4" [] d = 5 -> "5" [] d = 6 -> "6" [] d = 7 -> "7"
      [] d = 8 -> "8" [] d = 9 -> "9"

RECURSIVE StrToNat(_)
\* The value of a text of digits ("" is 0).
StrToNat(s) ==
    IF s = "" THEN 0
    ELSE 10 * StrToNat(SubSeq(s, 1, Len(s) - 1)) + DigitVal(CharAt(s, Len(s)))

RECURSIVE NatToStr(_)
\* str(n) for an int n >= 0.
NatToStr(n) == IF n < 10 THEN DigitChar(n) ELSE NatToStr(n \div 10) \o DigitChar(n % 10)

RECURSIVE Pow10(_)
Pow10(n) == IF n = 0 THEN 1 ELSE 10 * Pow10(n - 1)

RECURSIVE Zeros(_)
Zeros(n) == IF n <= 0 THEN "" ELSE "0" \o Zeros(n - 1)

\* Whether float(s) succeeds, for s a clean_number result: digits with at
\* most one decimal point and at least one digit.  Any other text of the
\* pages modelled here raises ValueError.
FloatOk(s) ==
    /\ s # ""
    /\ \A i \in 1..Len(s) : CharAt(s, i) \in NumChars
    /\ \E i \in 1..Len(s) : CharAt(s, i) \in Digits
    /\ Cardinality({i \in 1..Len(s) : CharAt(s, i) = "."}) <= 1

\* float(s) for FloatOk(s), exactly: [m, e] stands for m / 10^e.
ParseFloat(s) ==
    LET d    == Find(s, ".")
        ip   == IF d = 0 THEN s ELSE SubSeq(s, 1, d - 1)
        fp   == IF d = 0 THEN "" ELSE SubSeq(s, d + 1, Len(s))
    IN  [m |-> StrToNat(ip \o fp), e |-> Len(fp)]

RECURSIVE Normalize(_)
\* Drops the trailing zeros of the mantissa (e may become negative).
Normalize(x) ==
    IF x.m # 0 /\ x.m % 10 = 0 THEN Normalize([m |-> x.m \div 10, e |-> x.e - 1]) ELSE x

\* str(x) for a float x >= 0: repr's shortest digits, in fixed notation
\* when the decimal point position is in -3..16 and in exponent notation
\* otherwise.
FloatStr(x) ==
    IF x.m = 0 THEN "0.0"
    ELSE LET n     == Normalize(x)
             D     == NatToStr(n.m)
             decpt == Len(D) - n.e
             ex    == IF decpt >= 1 THEN decpt - 1 ELSE 1 - decpt
         IN  IF decpt > -4 /\ decpt <= 16
             THEN IF decpt <= 0 THEN "0." \o Zeros(0 - decpt) \o D
                  ELSE IF decpt >= Len(D) THEN D \o Zeros(decpt - Len(D)) \o ".0"
                  ELSE SubSeq(D, 1, decpt) \o "." \o SubSeq(D, decpt + 1, Len(D))
             ELSE CharAt(D, 1)
                  \o (IF Len(D) > 1 THEN "." \o Tail(D) ELSE "")
                  \o "e" \o (IF decpt >= 1 THEN "+" ELSE "-")
                  \o (IF ex < 10 THEN "0" ELSE "") \o NatToStr(ex)

\* str(float(num) / 1000)
DivThousandStr(num) ==
    LET x == ParseFloat(num) IN FloatStr([m |-> x.m, e |-> x.e + 3])

\* float(val) < 1
LessThanOne(val) == LET x == ParseFloat(val) IN x.m < Pow10(x.e)

\* str(int(float(val) * 100)): int() truncates toward zero.
TimesHundredIntStr(val) ==
    LET x == ParseFloat(val) IN NatToStr((x.m * 100) \div Pow10(x.e))

(***************************************************************************)
(* Python dicts, as sequences of <<key, value>> pairs in insertion order.  *)
(***************************************************************************)
Keys(d) == {d[i][1] : i \in 1..Len(d)}

HasKey(d, k) == \E i \in 1..Len(d) : d[i][1] = k

\* d[k], for a key the dict holds.
Lookup(d, k) == d[CHOOSE i \in 1..Len(d) : d[i][1] = k][2]

\* d[k] = v: a new key goes last, an old key keeps its place.
DictPut(d, k, v) ==
    IF HasKey(d, k)
    THEN [i \in 1..Len(d) |-> IF d[i][1] = k THEN <<k, v>> ELSE d[i]]
    ELSE Append(d, <<k, v>>)

RECURSIVE DictUpdate(_, _)
\* d.update(e), and {**d, **e}
DictUpdate(d, e) ==
    IF e = <<>> THEN d
    ELSE DictUpdate(DictPut(d, e[1][1], e[1][2]), Tail(e))

\* The least index of d whose entry satisfies P, 0 when there is none: the
\* entry at which a `for key, value in d.items()` loop returns.
FirstIndex(d, P(_, _)) ==
    IF \E i \in 1..Len(d) : P(d[i][1], d[i][2])
    THEN CHOOSE i \in 1..Len(d) :
            /\ P(d[i][1], d[i][2])
            /\ \A j \in 1..(i - 1) : ~P(d[j][1], d[j][2])
    ELSE 0

(***************************************************************************)
(* The parsed document.  BeautifulSoup's queries are not modelled: a page  *)
(* records what they answer.  An element is [found, text], text being its  *)
(* get_text(strip=True).                                                   *)
(*   fetched   whether fetch_page returned a non-empty text                *)
(*   h1, title the product_title heading and the <title> element           *)
(*   stock_p   the p.stock element inside the availability block           *)
(*   body      soup.get_text() of the whole document                       *)
(*   amount    the <bdi> of the price block                                *)
(*   items     the texts of the <li> elements of the located lists         *)
(*   rows      the cell texts of the <tr> rows of the located table        *)
(*   attrs     <<label, value>> texts of the product attribute rows        *)
(*   matches   for each regex key whose pattern list matches the html,     *)
(*             group 1 of the first matching pattern                       *)
(***************************************************************************)
NoElem == [found |-> FALSE, text |-> ""]

Elem(t) == [found |-> TRUE, text |-> t]

\* s.split(sep)[0]
SplitHead(s, sep) == IF Contains(s, sep) THEN SubSeq(s, 1, Find(s, sep) - 1) ELSE s

extract_product_name(soup) ==
    IF soup.h1.found THEN soup.h1.text
    ELSE IF soup.title.found THEN Strip(SplitHead(soup.title.text, " - "))
    ELSE ""

extract_stock_status(soup) ==
    LET text_lower == Lower(soup.stock_p.text)
        page_text  == Lower(soup.body)
    IN  IF soup.stock_p.found
        THEN IF Contains(text_lower, "out of stock") THEN "Out of Stock"
             ELSE IF Contains(text_lower, "in stock") THEN "In Stock"
             ELSE IF Contains(text_lower, "low") \/ Contains(text_lower, "order now")
                  THEN "Low Stock"
             ELSE soup.stock_p.text
        ELSE IF Contains(page_text, "out of stock") THEN "Out of Stock"
             ELSE IF Contains(page_text, "in stock") THEN "In Stock"
             ELSE IF Contains(page_text, "low stock") \/ Contains(page_text, "low in stock")
                  THEN "Low Stock"
             ELSE "Unknown"

RECURSIVE RemoveChar(_, _)
\* s.replace(c, "")
RemoveChar(s, c) ==
    IF s = "" THEN ""
    ELSE (IF CharAt(s, 1) = c THEN "" ELSE CharAt(s, 1)) \o RemoveChar(Tail(s), c)

RECURSIVE ClassRunEnd(_, _, _)
\* A greedy run of characters of class C from position i: its last position
\* (i - 1 when the run is empty).
ClassRunEnd(s, i, C) ==
    IF i <= Len(s) /\ CharAt(s, i) \in C THEN ClassRunEnd(s, i + 1, C) ELSE i - 1

\* re.search(r"[\d,]+\.?\d*", s).group(), "" when there is no match.
PriceMatch(s) ==
    LET start(i) == CharAt(s, i) \in (Digits \cup {","})
    IN  IF \E i \in 1..Len(s) : start(i)
        THEN LET b == CHOOSE i \in 1..Len(s) :
                         start(i) /\ \A j \in 1..(i - 1) : ~start(j)
                 e == ClassRunEnd(s, b, Digits \cup {","})
                 f == IF e + 1 <= Len(s) /\ CharAt(s, e + 1) = "."
                      THEN ClassRunEnd(s, e + 2, Digits) ELSE e
             IN  SubSeq(s, b, f)
        ELSE ""

extract_price(soup) ==
    IF soup.amount.found THEN PriceMatch(RemoveChar(soup.amount.text, ",")) ELSE ""

\* Longest key the list harvester keeps is one shorter than this.
KeyLimit == 50

\* A test that keeps a key as long as the limit.
KeptKeyUpToLimit(key) == Len(key) <= KeyLimit

\* `if len(key) < 50`
KeptKey(key) == Len(key) < KeyLimit

RECURSIVE HarvestItems(_, _)
\* The loop of extract_general_info over the list items, from specs.
HarvestItems(specs, items) ==
    IF items = <<>> THEN specs
    ELSE LET t     == items[1]
             c     == Find(t, ":")
             key   == Lower(Strip(SubSeq(t, 1, c - 1)))
             value == Strip(SubSeq(t, c + 1, Len(t)))
         IN  HarvestItems(IF c # 0 /\ KeptKey(key)
                          THEN DictPut(specs, key, value) ELSE specs,
                          Tail(items))

extract_general_info(soup) == HarvestItems(<<>>, soup.items)

RECURSIVE HarvestRows(_, _)
\* The loop of extract_specification_table over the rows of the table.
HarvestRows(specs, rows) ==
    IF rows = <<>> THEN specs
    ELSE LET cells == rows[1]
             key   == Strip(RStripChar(Lower(cells[1]), ":"))
             value == cells[2]
         IN  HarvestRows(IF Len(cells) >= 2 /\ key # "" /\ value # ""
                         THEN DictPut(specs, key, value) ELSE specs,
                         Tail(rows))

RECURSIVE HarvestAttrs(_, _)
\* Its second loop, over the product attribute rows.
HarvestAttrs(specs, attrs) ==
    IF attrs = <<>> THEN specs
    ELSE LET key   == Lower(attrs[1][1])
             value == attrs[1][2]
         IN  HarvestAttrs(IF key # "" /\ value # ""
                          THEN DictPut(specs, key, value) ELSE specs,
                          Tail(attrs))

extract_specification_table(soup) ==
    HarvestAttrs(HarvestRows(<<>>, soup.rows), soup.attrs)

\* The keys of the patterns dict of extract_via_regex, in its order.
RegexKeys ==
    <<"weight_kg", "shipping_weight", "shipping_dimensions", "rated_current",
      "no_load_current", "rated_torque", "stall_torque", "efficiency",
      "shaft_diameter">>

RECURSIVE HarvestMatches(_, _, _)
HarvestMatches(specs, keys, matches) ==
    IF keys = <<>> THEN specs
    ELSE HarvestMatches(IF HasKey(matches, keys[1])
                        THEN DictPut(specs, keys[1], Lookup(matches, keys[1]))
                        ELSE specs,
                        Tail(keys), matches)

extract_via_regex(soup) == HarvestMatches(<<>>, RegexKeys, soup.matches)

(***************************************************************************)
(* The merge of the harvested maps.                                        *)
(***************************************************************************)
\* The merge with the sources in the opposite order.
MergeProductTableFirst(regex, general, table) ==
    DictUpdate(DictUpdate(table, general), regex)

\* scrape_product: {**regex_specs, **general_info, **spec_table}
MergeProduct(regex, general, table) == DictUpdate(DictUpdate(regex, general), table)

\* scrape_battery: all_specs.update(general_info); all_specs.update(spec_table)
MergeBattery(general, table) == DictUpdate(DictUpdate(<<>>, general), table)

(***************************************************************************)
(* The field resolvers of scrape_product (closures over all_specs, here    *)
(* the parameter specs).                                                   *)
(***************************************************************************)
\* `clean_number(value) if clean else clean_value(value)`
Cleaned(value, clean) == IF clean THEN clean_number(value) ELSE clean_value(value)

RECURSIVE get_spec_last_alias_first(_, _, _, _)
\* get_spec walking the aliases from the last to the first.
get_spec_last_alias_first(specs, keys, clean, exact) ==
    IF keys = <<>> THEN ""
    ELSE LET key_lower == Lower(keys[Len(keys)])
             ExactHit(spec_key, value) ==
                 key_lower = Lower(spec_key) /\ value # ""
             SubHit(spec_key, value) ==
                 /\ \/ Contains(Lower(spec_key), key_lower)
                    \/ Contains(key_lower, Lower(spec_key))
                 /\ value # ""
             i == FirstIndex(specs, ExactHit)
             j == IF exact THEN 0 ELSE FirstIndex(specs, SubHit)
         IN  IF i # 0 THEN Cleaned(specs[i][2], clean)
             ELSE IF j # 0 THEN Cleaned(specs[j][2], clean)
             ELSE get_spec_last_alias_first(specs, SubSeq(keys, 1, Len(keys) - 1),
                                            clean, exact)

\* A substring test that takes only the alias inside the key.
SubstringHitAliasInKey(key_lower, spec_key_lower) == Contains(spec_key_lower, key_lower)

\* `key_lower in spec_key_lower or spec_key_lower in key_lower`
SubstringHit(key_lower, spec_key_lower) ==
    Contains(spec_key_lower, key_lower) \/ Contains(key_lower, spec_key_lower)

RECURSIVE get_spec(_, _, _, _)
get_spec(specs, keys, clean, exact) ==
    IF keys = <<>> THEN ""
    ELSE LET key_lower == Lower(keys[1])
             ExactHit(spec_key, value) ==
                 key_lower = Lower(spec_key) /\ value # ""
             SubHit(spec_key, value) ==
                 SubstringHit(key_lower, Lower(spec_key)) /\ value # ""
             i == FirstIndex(specs, ExactHit)
             j == IF exact THEN 0 ELSE FirstIndex(specs, SubHit)
         IN  IF i # 0 THEN Cleaned(specs[i][2], clean)
             ELSE IF j # 0 THEN Cleaned(specs[j][2], clean)
             ELSE get_spec(specs, Tail(keys), clean, exact)

RECURSIVE get_no_load_current(_)
get_no_load_current(specs) ==
    IF specs = <<>> THEN ""
    ELSE LET spec_key == specs[1][1]
             value    == specs[1][2]
             num      == clean_number(value)
         IN  IF /\ Contains(Lower(spec_key), "no")
                /\ Contains(Lower(spec_key), "load")
                /\ Contains(Lower(spec_key), "current")
             THEN IF Contains(Lower(spec_key), "ma") \/ Contains(Lower(value), "ma")
                  THEN IF num # "" /\ FloatOk(num)
                       THEN DivThousandStr(num)
                       ELSE get_no_load_current(Tail(specs))
                  ELSE clean_number(value)
             ELSE get_no_load_current(Tail(specs))

\* get_efficiency taking a missing value for 0.
get_efficiency_missing_as_zero(specs) ==
    LET found == get_spec(specs, <<"efficiency">>, TRUE, FALSE)
        val   == IF found = "" THEN "0" ELSE found
    IN  IF FloatOk(val)
        THEN IF LessThanOne(val) THEN TimesHundredIntStr(val) ELSE val
        ELSE val

get_efficiency(specs) ==
    LET val == get_spec(specs, <<"efficiency">>, TRUE, FALSE)
    IN  IF val # ""
        THEN IF FloatOk(val)
             THEN IF LessThanOne(val) THEN TimesHundredIntStr(val) ELSE val
             ELSE val
        ELSE ""

RECURSIVE WeightLoop(_, _)
\* The loop of get_weight over specs.items(), from the entries left; all is
\* the whole map, for the get_spec call after the loop.
WeightLoop(left, all) ==
    IF left = <<>>
    THEN get_spec(all, <<"weight (kg)", "weight:", "weight_kg">>, TRUE, TRUE)
    ELSE LET spec_key == left[1][1]
             value    == left[1][2]
             num      == clean_number(value)
         IN  IF /\ Contains(Lower(spec_key), "weight")
                /\ ~Contains(Lower(spec_key), "shipping")
             THEN IF Contains(Lower(spec_key), "(kg)") \/ Contains(Lower(value), "kg")
                  THEN clean_number(value)
                  ELSE IF /\ Contains(Lower(spec_key), "(g)")
                          /\ num # "" /\ FloatOk(num)
                       THEN DivThousandStr(num)
                       ELSE WeightLoop(Tail(left), all)
             ELSE WeightLoop(Tail(left), all)

get_weight(specs) == WeightLoop(specs, specs)

(***************************************************************************)
(* The field resolvers of scrape_battery.                                  *)
(***************************************************************************)
RECURSIVE battery_get_spec(_, _, _, _)
battery_get_spec(specs, keys, clean, exact) ==
    IF keys = <<>> THEN ""
    ELSE LET key_lower == Lower(keys[1])
             Hit(spec_key, value) ==
                 \/ exact /\ spec_key = key_lower
                 \/ ~exact /\ Contains(spec_key, key_lower)
             i == FirstIndex(specs, Hit)
         IN  IF i # 0 THEN Cleaned(specs[i][2], clean)
             ELSE battery_get_spec(specs, Tail(keys), clean, exact)

RECURSIVE battery_get_weight(_)
battery_get_weight(specs) ==
    IF specs = <<>> THEN ""
    ELSE LET key_lower == Lower(specs[1][1])
             num       == clean_number(specs[1][2])
         IN  IF /\ Contains(key_lower, "weight")
                /\ ~Contains(key_lower, "shipping")
                /\ num # ""
             THEN num
             ELSE battery_get_weight(Tail(specs))

get_dimension(specs, dim_type) ==
    LET Hit(spec_key, value) == Contains(Lower(spec_key), dim_type)
        i == FirstIndex(specs, Hit)
    IN  IF i # 0 THEN clean_number(specs[i][2]) ELSE ""

\* The key tests of the first loop of get_full_dimensions.
AxisWords == {"thickness", "breadth", "length", "width", "height"}

IsCombinedKey(spec_key) ==
    /\ Contains(Lower(spec_key), "dimension")
    /\ ~Contains(Lower(spec_key), "shipping")
    /\ ~\E x \in AxisWords : Contains(Lower(spec_key), x)

\* `a or b` on strings
Or(a, b) == IF a # "" THEN a ELSE b

\* get_full_dimensions joining whatever axes it found.
get_full_dimensions_partial(specs) ==
    LET Hit(spec_key, value) == IsCombinedKey(spec_key)
        i == FirstIndex(specs, Hit)
        t == get_dimension(specs, "thickness")
        b == Or(get_dimension(specs, "breadth"), get_dimension(specs, "width"))
        l == get_dimension(specs, "length")
    IN  IF i # 0 THEN clean_value(specs[i][2])
        ELSE IF t # "" \/ b # "" \/ l # ""
             THEN t \o " × " \o b \o " × " \o l \o " mm"
             ELSE ""

get_full_dimensions(specs) ==
    LET Hit(spec_key, value) == IsCombinedKey(spec_key)
        i == FirstIndex(specs, Hit)
        t == get_dimension(specs, "thickness")
        b == Or(get_dimension(specs, "breadth"), get_dimension(specs, "width"))
        l == get_dimension(specs, "length")
    IN  IF i # 0 THEN clean_value(specs[i][2])
        ELSE IF t # "" /\ b # "" /\ l # ""
             THEN t \o " × " \o b \o " × " \o l \o " mm"
             ELSE ""

(***************************************************************************)
(* The declared columns and the records the two scrapers build.  A dict    *)
(* literal lists its keys in insertion order.                              *)
(***************************************************************************)
\* scrape_product.CSV_COLUMNS
CSV_COLUMNS ==
    <<"Product Name", "URL", "Stock Status", "Price (INR)", "Voltage (V)",
      "Power (W)", "Rated Current (A)", "No Load Current (A)",
      "Rated Torque (kg-cm)", "Stall Torque (kg-cm)", "RPM", "Efficiency (%)",
      "Weight (kg)", "Shipping Weight (kg)", "Shipping Dimensions (cm)",
      "Shaft Diameter (mm)", "Motor Type", "Model No.", "Gearbox", "Dimensions",
      "Cable Length (cm)">>

\* scrape_battery.CSV_COLUMNS
BATTERY_CSV_COLUMNS ==
    <<"Product Name", "URL", "Stock Status", "Price (INR)", "Model No.",
      "Nominal Voltage (V)", "Capacity (mAh)", "Continuous Charge Current",
      "Continuous Discharge Current", "Max Charge Rate", "Max Discharge Rate",
      "Connector Type", "Life Cycles", "Application", "Thickness (mm)",
      "Breadth (mm)", "Length (mm)", "Dimensions", "Weight (g)",
      "Shipping Weight (kg)", "Shipping Dimensions (cm)", "Additional Specs">>

\* The `result = {...}` literal of scrape_product.
ProductRecord(name, clean_url, stock, pr, specs) ==
    << <<"Product Name", name>>,
       <<"URL", clean_url>>,
       <<"Stock Status", stock>>,
       <<"Price (INR)", pr>>,
       <<"Voltage (V)",
         get_spec(specs, <<"rated voltage", "operating voltage", "voltage", "vdc">>, TRUE, FALSE)>>,
       <<"Power (W)",
         get_spec(specs, <<"operating power", "rated power", "power">>, TRUE, FALSE)>>,
       <<"Rated Current (A)",
         get_spec(specs, <<"rated current (a)", "rated current", "rate current">>, TRUE, FALSE)>>,
       <<"No Load Current (A)", get_no_load_current(specs)>>,
       <<"Rated Torque (kg-cm)", get_spec(specs, <<"rated torque", "rate torque">>, TRUE, FALSE)>>,
       <<"Stall Torque (kg-cm)", get_spec(specs, <<"stall torque">>, TRUE, FALSE)>>,
       <<"RPM",
         get_spec(specs, <<"rated speed (rpm)", "rated speed", "speed (rpm)", "rpm">>, TRUE, FALSE)>>,
       <<"Efficiency (%)", get_efficiency(specs)>>,
       <<"Weight (kg)", get_weight(specs)>>,
       <<"Shipping Weight (kg)",
         get_spec(specs, <<"shipping weight", "shipping_weight">>, FALSE, FALSE)>>,
       <<"Shipping Dimensions (cm)",
         get_spec(specs, <<"shipping dimensions", "shipping_dimensions">>, FALSE, FALSE)>>,
       <<"Shaft Diameter (mm)", get_spec(specs, <<"shaft diameter", "shaft">>, TRUE, FALSE)>>,
       <<"Motor Type",
         get_spec(specs, <<"motor type", "item type", "brushed", "brushless">>, FALSE, FALSE)>>,
       <<"Model No.", get_spec(specs, <<"model", "model no">>, FALSE, FALSE)>>,
       <<"Gearbox", get_spec(specs, <<"gearbox", "gear box", "gear">>, FALSE, FALSE)>>,
       <<"Dimensions", get_spec(specs, <<"dimensions", "dimension", "lxd">>, FALSE, FALSE)>>,
       <<"Cable Length (cm)", get_spec(specs, <<"cable length", "cable">>, TRUE, FALSE)>> >>

\* The `result = {...}` literal of scrape_battery.
BatteryRecord(name, clean_url, stock, pr, specs) ==
    << <<"Product Name", name>>,
       <<"URL", clean_url>>,
       <<"Stock Status", stock>>,
       <<"Price (INR)", pr>>,
       <<"Model No.", battery_get_spec(specs, <<"model no", "model">>, FALSE, FALSE)>>,
       <<"Nominal Voltage (V)",
         battery_get_spec(specs, <<"nominal voltage", "voltage">>, TRUE, FALSE)>>,
       <<"Capacity (mAh)",
         battery_get_spec(specs, <<"nominal capacity", "capacity">>, TRUE, FALSE)>>,
       <<"Continuous Charge Current",
         battery_get_spec(specs, <<"continuous charge current", "charge current">>, FALSE, FALSE)>>,
       <<"Continuous Discharge Current",
         battery_get_spec(specs, <<"continuous dischg", "continuous discharge",
                                   "discharge current">>, FALSE, FALSE)>>,
       <<"Max Charge Rate",
         battery_get_spec(specs, <<"max. charge rate", "max charge rate", "max. charge">>,
                          FALSE, FALSE)>>,
       <<"Max Discharge Rate",
         battery_get_spec(specs, <<"max discharge rate", "max. discharge", "max dischg">>,
                          FALSE, FALSE)>>,
       <<"Connector Type",
         battery_get_spec(specs, <<"connector type", "connector">>, FALSE, FALSE)>>,
       <<"Life Cycles", battery_get_spec(specs, <<"life cycle", "cycle">>, FALSE, FALSE)>>,
       <<"Application", battery_get_spec(specs, <<"application">>, FALSE, FALSE)>>,
       <<"Thickness (mm)", get_dimension(specs, "thickness")>>,
       <<"Breadth (mm)",
         Or(get_dimension(specs, "breadth"), get_dimension(specs, "width"))>>,
       <<"Length (mm)", get_dimension(specs, "length")>>,
       <<"Dimensions", get_full_dimensions(specs)>>,
       <<"Weight (g)", battery_get_weight(specs)>>,
       <<"Shipping Weight (kg)", battery_get_spec(specs, <<"shipping weight">>, FALSE, FALSE)>>,
       <<"Shipping Dimensions (cm)",
         battery_get_spec(specs, <<"shipping dimensions">>, FALSE, FALSE)>>,
       <<"Additional Specs", battery_get_spec(specs, <<"additional spec">>, FALSE, FALSE)>> >>

\* A return that drops the fields left empty.
ReturnedNonEmpty(entries) ==
    [none |-> FALSE, fields |-> SelectSeq(entries, LAMBDA e : e[2] # "")]

\* What a call returns: a dict (its entries in order; {} is the empty one)
\* or None.
Returned(entries) == [none |-> FALSE, fields |-> entries]

ReturnedNone == [none |-> TRUE, fields |-> <<>>]

\* record[column]
Field(record, column) == Lookup(record, column)

(***************************************************************************)
(* The calls and pages the model runs.  Each family of pages varies the    *)
(* part of the document one group of fields reads, over a small pool of    *)
(* list items and table rows, and keeps the rest of BasePage.              *)
(***************************************************************************)
RECURSIVE SeqsUpTo(_, _)
\* The sequences over S of length at most n.
SeqsUpTo(S, n) ==
    IF n <= 0 THEN {<<>>}
    ELSE LET shorter == SeqsUpTo(S, n - 1)
         IN  shorter \cup {Append(q, x) : q \in {r \in shorter : Len(r) = n - 1}, x \in S}

Scrapers == {"scrape_product", "scrape_battery"}

Url == "https://robu.in/product/my6812"

BasePage ==
    [fetched |-> TRUE,
     h1      |-> Elem("MY6812 100W Motor"),
     title   |-> Elem("MY6812 100W Motor - Robu.in"),
     stock_p |-> Elem("In stock"),
     body    |-> "MY6812 100W Motor In stock Add to cart",
     amount  |-> Elem("Rs. 1,299.00"),
     items   |-> <<>>,
     rows    |-> <<>>,
     attrs   |-> <<>>,
     matches |-> <<>>]

\* The pages over a pool of list items, of table rows and of regex matches,
\* holding at most MaxEntries items and rows together.
HarvestPages(itemPool, rowPool, matchPool) ==
    {[BasePage EXCEPT !.items = ir[1], !.rows = ir[2], !.matches = m] :
        ir \in {x \in SeqsUpTo(itemPool, MaxEntries) \X SeqsUpTo(rowPool, MaxEntries) :
                   Len(x[1]) + Len(x[2]) <= MaxEntries},
        m \in matchPool}

\* Pages that differ in what identifies the product, its stock and its
\* price, and hold no list, no table and no regex match.
IdentityPages ==
    {[BasePage EXCEPT !.fetched = f, !.h1 = h, !.title = t, !.stock_p = st[1],
                      !.body = st[2], !.amount = a] :
        f  \in BOOLEAN,
        h  \in {NoElem, Elem(""), Elem("MY6812 100W Motor")},
        t  \in {NoElem, Elem(" - Robu.in"), Elem("MY6812 100W Motor - Robu.in")},
        st \in {<<NoElem, "MY6812 100W Motor Add to cart">>,
                <<NoElem, "MY6812 100W Motor Currently out of stock">>,
                <<NoElem, "MY6812 100W Motor Low stock">>,
                <<Elem("In stock"), "MY6812 100W Motor In stock">>,
                <<Elem("Only 2 left - order now"), "Only 2 left - order now">>,
                <<Elem("Available on backorder"), "Available on backorder">>,
                <<Elem(""), "MY6812 100W Motor">>},
        a  \in {NoElem, Elem("Rs. 1,299.00"), Elem("Call for price")}}

\* Pages in which one key comes from several sources.
MergePages ==
    HarvestPages({"Efficiency: 90%", "Efficiency:", "Shipping Weight: 0.4 kg"},
                 {<<"Efficiency", "85">>, <<"Efficiency:", "0.856">>,
                  <<"Motor Efficiency", "0.85">>, <<"Gearbox">>},
                 {<<>>, << <<"efficiency", "80">> >>,
                  << <<"efficiency", "78">>, <<"shipping_weight", "0.5">>,
                     <<"weight_kg", "0.5">> >>})

\* Pages with several voltage keys.
VoltagePages ==
    HarvestPages({"Rated Voltage:", "Operating Voltage: 24V", "Voltage: 12 V"},
                 {<<"Nominal Voltage", "11.1">>, <<"Operating Voltage", "7.4">>,
                  <<"Rated Voltage (VDC)", "36">>},
                 {<<>>})

\* Pages with weights in grams and kilograms.
WeightPages ==
    HarvestPages({"Weight: 1500 g", "Weight: 1.5 kg", "Shipping Weight: 2 kg"},
                 {<<"Weight (g)", "1500">>, <<"Weight (kg)", "1.5">>,
                  <<"Net Weight", "850g">>},
                 {<<>>, << <<"weight_kg", "1.5">> >>})

\* Pages with no-load currents in amps and milliamps.
CurrentPages ==
    HarvestPages({"No Load Current: 150mA", "No-load current: <0.5A",
                  "No Load Current (max): 0.5A"},
                 {<<"No Load Current (mA)", "150">>, <<"No Load Current", "0.5 A">>,
                  <<"Rated Current", "5A">>},
                 {<<>>, << <<"no_load_current", "0.5">> >>})

\* Pages with battery dimensions, axis by axis and combined.
DimensionPages ==
    HarvestPages({"Thickness: 5mm", "Breadth: 30", "Length:", "Width: 31 mm",
                  "Dimensions: 5 x  30 x 25 mm"},
                 {<<"Thickness", "5">>, <<"Length (mm)", "25">>,
                  <<"Shipping Dimensions", "10 x 5 x 3 cm">>,
                  <<"Length Dimension", "25 mm">>},
                 {<<>>})

\* Pages whose weight, no-load current and efficiency values hold no number
\* float() accepts.
UnparsablePages ==
    HarvestPages({"No Load Current (mA): N/A", "Weight (g): approx.",
                  "Efficiency: N/A"},
                 {<<"Efficiency", "1.2.3">>},
                 {<<>>})

\* Pages whose list items have keys of 49, 50 and 51 characters, several
\* colons, one key twice, and no colon.
ListPages ==
    HarvestPages({"Maximum Continuous Operating Ambient Temperatures: 60",
                  "Maximum Continuous Operating Ambient Temperature C: 60",
                  "Maximum Continuous Operating Ambient Temperature oC: 60",
                  "Gear Ratio : 1:30", "Gear ratio: 1:50", "High torque DC motor"},
                 {},
                 {<<>>})

\* Pages with a list item and table rows whose key part is empty.
EmptyKeyPages ==
    HarvestPages({": 12 V", "Voltage: 24V"},
                 {<<"", "5">>, <<":", "7">>},
                 {<<>>})

\* The calls: which scraper runs, on which url, and the page it fetches.
Inputs ==
    {[fn |-> f, url |-> u, page |-> pg] :
        f \in Scrapers, u \in {Url, Url \o "/"}, pg \in IdentityPages}
    \cup {[fn |-> f, url |-> Url, page |-> pg] :
            f \in Scrapers,
            pg \in MergePages \cup VoltagePages \cup WeightPages \cup ListPages
                     \cup EmptyKeyPages}
    \cup {[fn |-> "scrape_product", url |-> Url, page |-> pg] :
            pg \in CurrentPages \cup UnparsablePages}
    \cup {[fn |-> "scrape_battery", url |-> Url, page |-> pg] : pg \in DimensionPages}

\* No batch of scrapes is running.
NoBatch ==
    /\ urls = <<>>
    /\ max_workers = 0
    /\ futures = <<>>
    /\ scraped_data = <<>>

\* main is not running.
NoMain ==
    /\ all_product_urls = <<>>
    /\ existing_urls = {}
    /\ listings = <<>>

\* No batch driver is running.
NoDriver ==
    /\ csv_file = [exists |-> FALSE, lines |-> <<>>]
    /\ written = <<>>
    /\ NoBatch
    /\ NoMain

\* fetch_page is not running.
NoFetch ==
    /\ retries = 0
    /\ verbose = FALSE
    /\ attempt = 0
    /\ outcomes = <<>>
    /\ slept = <<>>
    /\ printed = 0
    /\ html = [none |-> TRUE, text |-> ""]

(***************************************************************************)
(* One call of scrape_product or scrape_battery, step by step.             *)
(***************************************************************************)
Init ==
    /\ \E in \in Inputs :
          /\ call = [fn |-> in.fn, url |-> in.url]
          /\ page = in.page
    /\ pc = "fetch"
    /\ product_name = ""
    /\ stock_status = ""
    /\ price = ""
    /\ general_info = <<>>
    /\ spec_table = <<>>
    /\ regex_specs = <<>>
    /\ all_specs = <<>>
    /\ result = ReturnedNone
    /\ text = ""
    /\ cleaned = ""
    /\ NoFetch
    /\ NoDriver

\* `if not html: return {}` (scrape_product), `return None` (scrape_battery)
FetchFailed ==
    /\ pc = "fetch"
    /\ ~page.fetched
    /\ result' = IF call.fn = "scrape_product" THEN Returned(<<>>) ELSE ReturnedNone
    /\ pc' = "done"
    /\ UNCHANGED <<call, page, product_name, stock_status, price, general_info,
                   spec_table, regex_specs, all_specs, text, cleaned>>
    /\ UNCHANGED <<fetchVars, driverVars>>

\* The page is parsed and the product name extracted; scrape_battery
\* returns None when there is none.
ExtractName ==
    /\ pc = "fetch"
    /\ page.fetched
    /\ product_name' = extract_product_name(page)
    /\ IF call.fn = "scrape_battery" /\ extract_product_name(page) = ""
       THEN result' = ReturnedNone /\ pc' = "done"
       ELSE result' = result /\ pc' = "harvest"
    /\ UNCHANGED <<call, page, stock_status, price, general_info, spec_table,
                   regex_specs, all_specs, text, cleaned>>
    /\ UNCHANGED <<fetchVars, driverVars>>

\* Stock status, price and the harvests (scrape_battery has no regex
\* harvest).
Harvest ==
    /\ pc = "harvest"
    /\ stock_status' = extract_stock_status(page)
    /\ price' = extract_price(page)
    /\ general_info' = extract_general_info(page)
    /\ spec_table' = extract_specification_table(page)
    /\ regex_specs' = IF call.fn = "scrape_product" THEN extract_via_regex(page) ELSE <<>>
    /\ pc' = "merge"
    /\ UNCHANGED <<call, page, product_name, all_specs, result, text, cleaned>>
    /\ UNCHANGED <<fetchVars, driverVars>>

Merge ==
    /\ pc = "merge"
    /\ all_specs' = IF call.fn = "scrape_product"
                    THEN MergeProduct(regex_specs, general_info, spec_table)
                    ELSE MergeBattery(general_info, spec_table)
    /\ pc' = "resolve"
    /\ UNCHANGED <<call, page, product_name, stock_status, price, general_info,
                   spec_table, regex_specs, result, text, cleaned>>
    /\ UNCHANGED <<fetchVars, driverVars>>

\* A resolution that uses up the first entry of the map.
SpecsAfterResolvingConsumed(specs) == IF specs = <<>> THEN specs ELSE Tail(specs)

\* The map after the resolvers ran: they only iterate all_specs.items().
SpecsAfterResolving(specs) == specs

\* The result dict is built and returned.
BuildResult ==
    /\ pc = "resolve"
    /\ result' = Returned(IF call.fn = "scrape_product"
                          THEN ProductRecord(product_name, RStripChar(call.url, "/"),
                                             stock_status, price, all_specs)
                          ELSE BatteryRecord(product_name, RStripChar(call.url, "/"),
                                             stock_status, price, all_specs))
    /\ all_specs' = SpecsAfterResolving(all_specs)
    /\ pc' = "done"
    /\ UNCHANGED <<call, page, product_name, stock_status, price, general_info,
                   spec_table, regex_specs, text, cleaned>>
    /\ UNCHANGED <<fetchVars, driverVars>>

Next == FetchFailed \/ ExtractName \/ Harvest \/ Merge \/ BuildResult

Spec == Init /\ [][Next]_vars

(***************************************************************************)
(* Direct calls of clean_number, on every short text over an alphabet with *)
(* one character of each kind the pattern tells apart, and on the texts    *)
(* the documentation gives.                                                *)
(***************************************************************************)
Alphabet == {"<", " ", "5", ".", "a"}

RECURSIVE TextsOfLen(_)
TextsOfLen(n) ==
    IF n = 0 THEN {""} ELSE {c \o t : c \in Alphabet, t \in TextsOfLen(n - 1)}

Texts ==
    UNION {TextsOfLen(n) : n \in 0..MaxLen}
    \cup {"<0.5A", "Approx 120", "N/A", "Approx. 120", "~ 12.5 V"}

InitClean ==
    /\ text \in Texts
    /\ pc = "clean_number"
    /\ cleaned = ""
    /\ call = [fn |-> "clean_number", url |-> ""]
    /\ page = BasePage
    /\ product_name = ""
    /\ stock_status = ""
    /\ price = ""
    /\ general_info = <<>>
    /\ spec_table = <<>>
    /\ regex_specs = <<>>
    /\ all_specs = <<>>
    /\ result = ReturnedNone
    /\ NoFetch
    /\ NoDriver

CleanNumber ==
    /\ pc = "clean_number"
    /\ cleaned' = clean_number(text)
    /\ pc' = "returned"
    /\ UNCHANGED <<call, page, product_name, stock_status, price, general_info,
                   spec_table, regex_specs, all_specs, result, text>>
    /\ UNCHANGED <<fetchVars, driverVars>>

NextClean == CleanNumber

SpecClean == InitClean /\ [][NextClean]_vars

(***************************************************************************)
(* One call of fetch_page.  scraper.get either returns a response whose    *)
(* raise_for_status passes, or it (or raise_for_status) raises; get has a  *)
(* timeout, so each attempt ends.                                          *)
(***************************************************************************)
\* The state of a scrape_product or scrape_battery call, and of a direct
\* clean_number call.
scrapeVars == <<page, product_name, stock_status, price, general_info,
                spec_table, regex_specs, all_specs, result, text, cleaned>>

\* Largest retries argument of the calls modelled.
MaxRetries == 4

\* The default of the retries parameter.
DefaultRetries == 3

\* response.text of a successful attempt.
ResponseTexts == {"", "<html><title>MY6812</title></html>", "<html></html>"}

\* The urls fetched: a product's specification tab and a listing page.
FetchUrls == {Url \o "/#tab-specification", "https://robu.in/product-category/ebike-parts/"}

None == [none |-> TRUE, text |-> ""]

Text(t) == [none |-> FALSE, text |-> t]

Failed == [ok |-> FALSE, text |-> ""]

Succeeded(t) == [ok |-> TRUE, text |-> t]

\* 2 ** attempt
Backoff(att) == 2 ^ att

\* A sleep after every failed attempt, the last one too.
ShouldSleepAlways(att, r) == att < r

\* `if attempt < retries - 1`
ShouldSleep(att, r) == att < r - 1

InitFetch ==
    /\ pc = "fetch_try"
    /\ \E u \in FetchUrls : call = [fn |-> "fetch_page", url |-> u]
    /\ retries \in 0..MaxRetries
    /\ verbose \in BOOLEAN
    /\ attempt = 0
    /\ outcomes = <<>>
    /\ slept = <<>>
    /\ printed = 0
    /\ html = None
    /\ NoDriver
    /\ page = BasePage
    /\ product_name = ""
    /\ stock_status = ""
    /\ price = ""
    /\ general_info = <<>>
    /\ spec_table = <<>>
    /\ regex_specs = <<>>
    /\ all_specs = <<>>
    /\ result = ReturnedNone
    /\ text = ""
    /\ cleaned = ""

\* The try block runs through: `return response.text`
GetSucceeds ==
    /\ pc = "fetch_try"
    /\ attempt < retries
    /\ \E t \in ResponseTexts :
          /\ outcomes' = Append(outcomes, Succeeded(t))
          /\ html' = Text(t)
    /\ pc' = "fetch_returned"
    /\ UNCHANGED <<call, retries, verbose, attempt, slept, printed, scrapeVars>>
    /\ UNCHANGED driverVars

\* scraper.get or raise_for_status raises: the except block up to the
\* test for the sleep.
GetFails ==
    /\ pc = "fetch_try"
    /\ attempt < retries
    /\ outcomes' = Append(outcomes, Failed)
    /\ printed' = IF verbose THEN printed + 1 ELSE printed
    /\ pc' = "fetch_except"
    /\ UNCHANGED <<call, retries, verbose, attempt, slept, html, scrapeVars>>
    /\ UNCHANGED driverVars

\* The rest of the except block, and the step of the loop.
BackoffAndNext ==
    /\ pc = "fetch_except"
    /\ slept' = IF ShouldSleep(attempt, retries)
                THEN Append(slept, Backoff(attempt)) ELSE slept
    /\ attempt' = attempt + 1
    /\ pc' = "fetch_try"
    /\ UNCHANGED <<call, retries, verbose, outcomes, printed, html, scrapeVars>>
    /\ UNCHANGED driverVars

\* The loop is over: `return None`
Exhausted ==
    /\ pc = "fetch_try"
    /\ attempt >= retries
    /\ html' = None
    /\ pc' = "fetch_returned"
    /\ UNCHANGED <<call, retries, verbose, attempt, outcomes, slept, printed, scrapeVars>>
    /\ UNCHANGED driverVars

NextFetch == GetSucceeds \/ GetFails \/ BackoffAndNext \/ Exhausted

\* Every attempt and every sleep ends.
SpecFetch == InitFetch /\ [][NextFetch]_vars /\ WF_vars(NextFetch)

(***************************************************************************)
(* The sink.  A csv file is modelled by its lines, without their line      *)
(* terminators; a field holding a line break is not modelled.  csv.writer  *)
(* and csv.reader are modelled character by character, with the default    *)
(* dialect: comma, double quote, minimal quoting.                          *)
(***************************************************************************)
\* Most records handed to append_to_csv over all its calls.
MaxRows == 3

\* The characters that make csv.writer quote a field.
QuotedChars == {",", "\"", "\n", "\r"}

RECURSIVE DoubleQuotes(_)
\* Every double quote of a field doubled.
DoubleQuotes(f) ==
    IF f = "" THEN ""
    ELSE (IF CharAt(f, 1) = "\"" THEN "\"\"" ELSE CharAt(f, 1)) \o DoubleQuotes(Tail(f))

\* A field as csv.writer writes it.
CsvField(f) ==
    IF \E i \in 1..Len(f) : CharAt(f, i) \in QuotedChars
    THEN "\"" \o DoubleQuotes(f) \o "\"" ELSE f

RECURSIVE CsvLine(_)
\* writer.writerow(row), without the line terminator.
CsvLine(row) ==
    IF Len(row) = 1 THEN CsvField(row[1])
    ELSE CsvField(row[1]) \o "," \o CsvLine(Tail(row))

\* The least position from i on that holds a character of C (one past the
\* end of the line when there is none).
NextOf(line, i, C) ==
    LET S == {j \in i..Len(line) : CharAt(line, j) \in C}
    IN  IF S = {} THEN Len(line) + 1 ELSE CHOOSE j \in S : \A k \in S : j <= k

\* The quote that closes the quoted field opened at position i: the first
\* one after an even number of quotes that no quote follows.
ClosingQuote(line, i) ==
    LET quotes(j) == Cardinality({k \in (i + 1)..j : CharAt(line, k) = "\""})
        S == {j \in (i + 1)..Len(line) :
                /\ CharAt(line, j) = "\""
                /\ quotes(j) % 2 = 1
                /\ j = Len(line) \/ CharAt(line, j + 1) # "\""}
    IN  IF S = {} THEN Len(line) + 1 ELSE CHOOSE j \in S : \A k \in S : j <= k

RECURSIVE Undouble(_)
\* The text of a quoted field: every doubled quote read as one.
Undouble(f) ==
    IF f = "" THEN ""
    ELSE IF Len(f) >= 2 /\ SubSeq(f, 1, 2) = "\"\"" THEN "\"" \o Undouble(SubSeq(f, 3, Len(f)))
    ELSE CharAt(f, 1) \o Undouble(Tail(f))

RECURSIVE ParseFields(_, _, _)
\* csv.reader on one line, from the field that starts at position i; acc
\* holds the fields read.  What follows a closing quote up to the next
\* comma is added to the field.
ParseFields(line, i, acc) ==
    LET quoted == i <= Len(line) /\ CharAt(line, i) = "\""
        close  == ClosingQuote(line, i)
        comma  == NextOf(line, IF quoted THEN close + 1 ELSE i, {","})
        field  == IF quoted
                  THEN Undouble(SubSeq(line, i + 1, close - 1))
                       \o SubSeq(line, close + 1, comma - 1)
                  ELSE SubSeq(line, i, comma - 1)
    IN  IF comma > Len(line) THEN Append(acc, field)
        ELSE ParseFields(line, comma + 1, Append(acc, field))

\* The row csv.reader yields for a line: [] for an empty one.
ParseCsvLine(line) == IF line = "" THEN <<>> ELSE ParseFields(line, 1, <<>>)

\* The columns of the driver: scrape_motors imports those of scrape_product,
\* scrape_batteries those of scrape_battery.
ColumnsOf(module) == IF module = "scrape_motors" THEN CSV_COLUMNS ELSE BATTERY_CSV_COLUMNS

\* {col: row.get(col, "") for col in CSV_COLUMNS}, as the row written.
RowData(columns, row) ==
    [i \in 1..Len(columns) |->
        IF HasKey(row, columns[i]) THEN Lookup(row, columns[i]) ELSE ""]

\* bool(f.read().strip())
HasContent(file) == \E i \in 1..Len(file.lines) : Strip(file.lines[i]) # ""

\* Every call opening the file for writing.
OpenModeTruncate(file_exists, has_content) == "w"

\* mode = "a" if file_exists and has_content else "w"
OpenMode(file_exists, has_content) == IF file_exists /\ has_content THEN "a" ELSE "w"

append_to_csv(file, columns, data) ==
    LET file_exists == file.exists
        has_content == file_exists /\ HasContent(file)
        mode        == OpenMode(file_exists, has_content)
        opened      == IF mode = "w" THEN <<>> ELSE file.lines
        header      == IF mode = "w" \/ ~has_content THEN <<CsvLine(columns)>> ELSE <<>>
        rows        == [i \in 1..Len(data) |-> CsvLine(RowData(columns, data[i]))]
    IN  [exists |-> TRUE, lines |-> opened \o header \o rows]

Modules == {"scrape_motors", "scrape_batteries"}

\* The sinks the claims start from: absent, empty, and holding white space.
EmptySinks ==
    {[exists |-> FALSE, lines |-> <<>>], [exists |-> TRUE, lines |-> <<>>],
     [exists |-> TRUE, lines |-> <<"  ">>], [exists |-> TRUE, lines |-> <<"", "\t">>]}

\* The product urls of the listing pages, sorted.
ProductUrls ==
    <<"https://robu.in/product/my1016", "https://robu.in/product/my6812",
      "https://robu.in/product/orange-2200mah", "https://robu.in/product/pmdc-motor">>

\* A page with a name that needs quoting in the sink.
QuotedPage ==
    [BasePage EXCEPT !.h1 = Elem("Motor, 24V \"HD\""),
                     !.items = <<"Dimensions: 5 x 30, 25 mm">>]

\* scrape_product(url) on the page soup, as one step.
scrape_product(url, soup) ==
    IF ~soup.fetched THEN Returned(<<>>)
    ELSE Returned(ProductRecord(extract_product_name(soup), RStripChar(url, "/"),
                                extract_stock_status(soup), extract_price(soup),
                                MergeProduct(extract_via_regex(soup),
                                             extract_general_info(soup),
                                             extract_specification_table(soup))))

\* scrape_battery(url) on the page soup, as one step.
scrape_battery(url, soup) ==
    IF ~soup.fetched \/ extract_product_name(soup) = "" THEN ReturnedNone
    ELSE Returned(BatteryRecord(extract_product_name(soup), RStripChar(url, "/"),
                                extract_stock_status(soup), extract_price(soup),
                                MergeBattery(extract_general_info(soup),
                                             extract_specification_table(soup))))

\* The scraper of a driver.
Scrape(module, url, soup) ==
    IF module = "scrape_motors" THEN scrape_product(url, soup) ELSE scrape_battery(url, soup)

\* The records handed to append_to_csv: scraped ones, one that lacks
\* columns, holds its keys in another order and has a key that is no
\* column, and the empty one.
RecordPool(module) ==
    {Scrape(module, ProductUrls[1], BasePage).fields,
     Scrape(module, ProductUrls[2], QuotedPage).fields,
     << <<"URL", ProductUrls[3]>>, <<"Product Name", "Orange 2200mAh">>,
        <<"Colour", "black">> >>,
     <<>>}

InitSink ==
    /\ pc = "append_to_csv"
    /\ \E m \in Modules : call = [fn |-> "append_to_csv", module |-> m]
    /\ csv_file \in EmptySinks
    /\ written = <<>>
    /\ NoBatch
    /\ NoMain
    /\ NoFetch
    /\ page = BasePage
    /\ product_name = ""
    /\ stock_status = ""
    /\ price = ""
    /\ general_info = <<>>
    /\ spec_table = <<>>
    /\ regex_specs = <<>>
    /\ all_specs = <<>>
    /\ result = ReturnedNone
    /\ text = ""
    /\ cleaned = ""

\* One call append_to_csv(csv_path, data).
AppendToCsv ==
    /\ pc = "append_to_csv"
    /\ \E data \in SeqsUpTo(RecordPool(call.module), MaxRows - Len(written)) :
          /\ csv_file' = append_to_csv(csv_file, ColumnsOf(call.module), data)
          /\ written' = written \o data
    /\ UNCHANGED <<pc, call, scrapeVars, fetchVars, batchVars, mainVars>>

NextSink == AppendToCsv

SpecSink == InitSink /\ [][NextSink]_vars

(***************************************************************************)
(* One batch of scrapes: scrape_products_parallel of either driver, the    *)
(* sequential loop of scrape_motors.main and scrape_products_sequential of *)
(* scrape_batteries.  The executor starts the submitted calls in order, at *)
(* most max_workers at a time; as_completed hands the finished ones to the *)
(* collecting loop in any order.  The sleeps between scrapes only pass     *)
(* time and are left out.                                                  *)
(***************************************************************************)
\* Most urls in one batch.
MaxUrls == 3

\* Largest thread pool modelled.
MaxWorkers == 2

\* What a product url may serve: a page with a name, one without, and no
\* page at all.
NamelessPage == [BasePage EXCEPT !.h1 = NoElem, !.title = NoElem]

UnfetchedPage == [BasePage EXCEPT !.fetched = FALSE]

SitePages == {BasePage, NamelessPage, UnfetchedPage}

\* What one scrape call comes to: it raises, or returns data.
Outcomes(module, url) ==
    {[raised |-> FALSE, data |-> Scrape(module, url, pg)] : pg \in SitePages}
    \cup {[raised |-> TRUE, data |-> ReturnedNone]}

\* The same, as a table by driver and url.
OutcomeTable ==
    [m \in Modules |->
        [u \in {ProductUrls[i] : i \in 1..Len(ProductUrls)} |-> Outcomes(m, u)]]

\* The truth value of a returned dict or None.
Truthy(r) == ~r.none /\ r.fields # <<>>

\* `data and data.get("Product Name")`
HasName(r) ==
    /\ Truthy(r)
    /\ HasKey(r.fields, "Product Name")
    /\ Lookup(r.fields, "Product Name") # ""

\* scrape_motors.scrape_product_safe, given what scrape_product came to.
scrape_product_safe(outcome) ==
    IF ~outcome.raised /\ HasName(outcome.data) THEN outcome.data ELSE ReturnedNone

\* What the future of a call yields: scrape_motors submits
\* scrape_product_safe, scrape_batteries a call that lets scrape_battery's
\* exception through.
FutureOf(module, outcome) ==
    IF module = "scrape_motors"
    THEN [raised |-> FALSE, result |-> scrape_product_safe(outcome)]
    ELSE [raised |-> outcome.raised, result |-> outcome.data]

\* The test under which the sequential loop keeps the data of a scrape:
\* `if data and data.get("Product Name")` in scrape_motors.main,
\* `if result` in scrape_batteries.
KeptSequential(module, outcome) ==
    /\ ~outcome.raised
    /\ IF module = "scrape_motors" THEN HasName(outcome.data) ELSE Truthy(outcome.data)

\* The test of the collecting loop dropped: every result is appended.
KeptCollectedAll(future) == ~future.raised

\* `result = future.result()` without exception, and `if result`
KeptCollected(future) == ~future.raised /\ Truthy(future.result)

Submitted ==
    [state |-> "pending", scrapes |-> 0, outcome |-> [raised |-> FALSE, data |-> ReturnedNone],
     raised |-> FALSE, result |-> ReturnedNone]

\* The lists of distinct urls, in sorted order, of at most n urls.
UrlLists(n) ==
    {[i \in 1..Len(ix) |-> ProductUrls[ix[i]]] :
        ix \in {q \in SeqsUpTo(1..Len(ProductUrls), n) :
                   \A i \in 1..(Len(q) - 1) : q[i] < q[i + 1]}}

InitBatch ==
    /\ pc = "batch"
    /\ \E m \in Modules, f \in {"scrape_products_parallel", "sequential"} :
          call = [fn |-> f, module |-> m]
    /\ urls \in UrlLists(MaxUrls)
    /\ max_workers \in 1..MaxWorkers
    /\ futures = [i \in 1..Len(urls) |-> Submitted]
    /\ scraped_data = <<>>
    /\ csv_file = [exists |-> FALSE, lines |-> <<>>]
    /\ written = <<>>
    /\ NoMain
    /\ NoFetch
    /\ page = BasePage
    /\ product_name = ""
    /\ stock_status = ""
    /\ price = ""
    /\ general_info = <<>>
    /\ spec_table = <<>>
    /\ regex_specs = <<>>
    /\ all_specs = <<>>
    /\ result = ReturnedNone
    /\ text = ""
    /\ cleaned = ""

Running == {i \in 1..Len(futures) : futures[i].state = "running"}

\* A worker thread takes the next submitted call and enters the scrape.
WorkerStart ==
    /\ pc = "batch"
    /\ call.fn = "scrape_products_parallel"
    /\ Cardinality(Running) < max_workers
    /\ \E i \in 1..Len(futures) :
          /\ futures[i].state = "pending"
          /\ \A j \in 1..(i - 1) : futures[j].state # "pending"
          /\ futures' = [futures EXCEPT ![i].state = "running",
                                         ![i].scrapes = futures[i].scrapes + 1]
    /\ UNCHANGED <<pc, call, urls, max_workers, scraped_data, sinkVars, mainVars,
                   scrapeVars, fetchVars>>

\* The scrape of a worker ends, and with it the submitted call.
WorkerFinish ==
    /\ pc = "batch"
    /\ \E i \in Running : \E o \in OutcomeTable[call.module][urls[i]] :
          futures' = [futures EXCEPT ![i].state = "finished",
                                     ![i].outcome = o,
                                     ![i].raised = FutureOf(call.module, o).raised,
                                     ![i].result = FutureOf(call.module, o).result]
    /\ UNCHANGED <<pc, call, urls, max_workers, scraped_data, sinkVars, mainVars,
                   scrapeVars, fetchVars>>

\* One round of the `for future in as_completed(...)` loop.
Collect ==
    /\ pc = "batch"
    /\ \E i \in 1..Len(futures) :
          /\ futures[i].state = "finished"
          /\ scraped_data' = IF KeptCollected(futures[i])
                             THEN Append(scraped_data, futures[i].result.fields)
                             ELSE scraped_data
          /\ futures' = [futures EXCEPT ![i].state = "collected"]
    /\ UNCHANGED <<pc, call, urls, max_workers, sinkVars, mainVars, scrapeVars, fetchVars>>

\* One round of the sequential loop: the scrape of the next url and what
\* the loop does with it.
SequentialStep ==
    /\ pc = "batch"
    /\ call.fn = "sequential"
    /\ \E i \in 1..Len(futures) : \E o \in OutcomeTable[call.module][urls[i]] :
          /\ futures[i].state = "pending"
          /\ \A j \in 1..(i - 1) : futures[j].state # "pending"
          /\ scraped_data' = IF KeptSequential(call.module, o)
                             THEN Append(scraped_data, o.data.fields)
                             ELSE scraped_data
          /\ futures' = [futures EXCEPT ![i].state = "collected",
                                         ![i].scrapes = futures[i].scrapes + 1,
                                         ![i].outcome = o]
    /\ UNCHANGED <<pc, call, urls, max_workers, sinkVars, mainVars, scrapeVars, fetchVars>>

\* Every url has been dealt with: `return scraped_data`
BatchReturn ==
    /\ pc = "batch"
    /\ \A i \in 1..Len(futures) : futures[i].state = "collected"
    /\ pc' = "batch_returned"
    /\ UNCHANGED <<call, batchVars, sinkVars, mainVars, scrapeVars, fetchVars>>

NextBatch == WorkerStart \/ WorkerFinish \/ Collect \/ SequentialStep \/ BatchReturn

\* Every scrape ends (fetch_page is bounded) and every thread gets to run.
SpecBatch == InitBatch /\ [][NextBatch]_vars /\ WF_vars(NextBatch)

(***************************************************************************)
(* Runs of main of either driver against one sink, one after the other.    *)
(* A run collects the product urls of its listing pages, leaves out those  *)
(* the sink holds, scrapes the rest as a batch (the actions above) and     *)
(* appends what the batch returned.                                        *)
(***************************************************************************)
\* Most runs of main against the sink.
MaxRuns == 2

\* Most product urls the listing pages of one run give.
MaxListed == 2

\* The position of column name in the header row, 0 when it is not there.
ColumnIndex(fieldnames, name) ==
    IF \E c \in 1..Len(fieldnames) : fieldnames[c] = name
    THEN CHOOSE c \in 1..Len(fieldnames) : fieldnames[c] = name
    ELSE 0

\* A reading of the sink that finds no url.
get_existing_urls_none(file) == {}

\* csv.DictReader takes the first row for the field names and skips empty
\* rows.  (A row shorter than the header, which would give None, is not
\* written by append_to_csv.)
get_existing_urls(file) ==
    IF ~file.exists \/ file.lines = <<>> THEN {}
    ELSE LET c == ColumnIndex(ParseCsvLine(file.lines[1]), "URL")
         IN  IF c = 0 THEN {}
             ELSE {ParseCsvLine(file.lines[k])[c] :
                      k \in {j \in 2..Len(file.lines) :
                                Len(ParseCsvLine(file.lines[j])) >= c}}

\* [url for url in all_product_urls if url not in existing_urls]
NewUrls(all, existing) == SelectSeq(all, LAMBDA u : u \notin existing)

InitMain ==
    /\ pc = "main"
    /\ \E m \in Modules, f \in {"scrape_products_parallel", "sequential"} :
          call = [fn |-> f, module |-> m]
    /\ csv_file \in {f \in EmptySinks : Len(f.lines) \in {0, 2}}
    /\ written = <<>>
    /\ max_workers = MaxWorkers
    /\ urls = <<>>
    /\ futures = <<>>
    /\ scraped_data = <<>>
    /\ NoMain
    /\ NoFetch
    /\ page = BasePage
    /\ product_name = ""
    /\ stock_status = ""
    /\ price = ""
    /\ general_info = <<>>
    /\ spec_table = <<>>
    /\ regex_specs = <<>>
    /\ all_specs = <<>>
    /\ result = ReturnedNone
    /\ text = ""
    /\ cleaned = ""

\* The listing pages are fetched and their product urls collected and
\* sorted; with none, main exits.
CollectListing ==
    /\ pc = "main"
    /\ Len(listings) < MaxRuns
    /\ \E found \in UrlLists(MaxListed) :
          /\ all_product_urls' = found
          /\ listings' = Append(listings, found)
          /\ pc' = IF found = <<>> THEN "main" ELSE "filter"
    /\ UNCHANGED <<call, existing_urls, sinkVars, batchVars, scrapeVars, fetchVars>>

\* existing_urls and new_urls; scrape_batteries returns when there is no
\* new url, scrape_motors goes on with the empty list.
FilterNew ==
    /\ pc = "filter"
    /\ LET existing == get_existing_urls(csv_file)
           new_urls == NewUrls(all_product_urls, existing)
       IN  /\ existing_urls' = existing
           /\ urls' = new_urls
           /\ futures' = [i \in 1..Len(new_urls) |-> Submitted]
           /\ scraped_data' = <<>>
           /\ pc' = IF call.module = "scrape_batteries" /\ new_urls = <<>>
                    THEN "main" ELSE "batch"
    /\ UNCHANGED <<call, max_workers, all_product_urls, listings, sinkVars,
                   scrapeVars, fetchVars>>

\* `if scraped_data: append_to_csv(args.csv_file, scraped_data)`
Save ==
    /\ pc = "batch_returned"
    /\ listings # <<>>
    /\ csv_file' = IF scraped_data # <<>>
                   THEN append_to_csv(csv_file, ColumnsOf(call.module), scraped_data)
                   ELSE csv_file
    /\ written' = written \o scraped_data
    /\ pc' = "main"
    /\ UNCHANGED <<call, batchVars, mainVars, scrapeVars, fetchVars>>

NextMain == CollectListing \/ FilterNew \/ NextBatch \/ Save

SpecMain == InitMain /\ [][NextMain]_vars

(***************************************************************************)
(* Properties.                                                             *)
(***************************************************************************)
IsProduct == call.fn = "scrape_product"

IsBattery == call.fn = "scrape_battery"

\* The call has returned a dict with entries.
ReturnedRecord == pc = "done" /\ ~result.none /\ result.fields # <<>>

\* The keys of a record, in order.
RecordKeys(record) == [i \in 1..Len(record) |-> record[i][1]]

DeclaredColumns == IF IsProduct THEN CSV_COLUMNS ELSE BATTERY_CSV_COLUMNS

NothingHarvested == general_info = <<>> /\ spec_table = <<>> /\ regex_specs = <<>>

\* C1: every non-empty record scrape_product or scrape_battery returns has
\* exactly the keys of its module's CSV_COLUMNS, in that order, whatever was
\* harvested.
C1_DeclaredColumns ==
    ReturnedRecord => RecordKeys(result.fields) = DeclaredColumns

\* C1 witness: a record was returned from a page on which every harvest
\* is empty.
C1_Witness == ReturnedRecord /\ NothingHarvested /\ IsBattery

\* The value the merge precedence regex < list < table gives key k.
Winner(k) ==
    IF HasKey(spec_table, k) THEN Lookup(spec_table, k)
    ELSE IF HasKey(general_info, k) THEN Lookup(general_info, k)
    ELSE Lookup(regex_specs, k)

\* C2: the merged map holds the union of the keys of the three harvests,
\* each once, with the table's value where the table has the key, else the
\* list's, else the regex's; and the Efficiency field, resolved from the
\* key "efficiency", is what that winning value alone resolves to.
C2_MergePrecedence ==
    pc \in {"resolve", "done"} =>
        /\ Keys(all_specs) = Keys(regex_specs) \cup Keys(general_info) \cup Keys(spec_table)
        /\ Len(all_specs) = Cardinality(Keys(all_specs))
        /\ \A k \in Keys(all_specs) : Lookup(all_specs, k) = Winner(k)
        /\ (ReturnedRecord /\ IsProduct /\ HasKey(all_specs, "efficiency")
              /\ Winner("efficiency") # "")
           => Field(result.fields, "Efficiency (%)")
                = get_efficiency(<< <<"efficiency", Winner("efficiency")>> >>)

\* C2 witness: one key harvested by the regex, the list and the table with
\* three different values, and the record returned.
C2_Witness ==
    /\ ReturnedRecord /\ IsProduct
    /\ HasKey(regex_specs, "efficiency")
    /\ HasKey(general_info, "efficiency")
    /\ HasKey(spec_table, "efficiency")
    /\ Lookup(regex_specs, "efficiency") # Lookup(general_info, "efficiency")
    /\ Lookup(general_info, "efficiency") # Lookup(spec_table, "efficiency")
    /\ Lookup(regex_specs, "efficiency") # Lookup(spec_table, "efficiency")

\* C3: when a fetched page yields no product name, the scrape returns no
\* record ({} or None); so no returned record has an empty Product Name.
C3_NoNameNoRecord ==
    /\ (pc = "done" /\ page.fetched /\ extract_product_name(page) = "")
          => result.fields = <<>>
    /\ ReturnedRecord => Field(result.fields, "Product Name") # ""

NoStockPhrase(t) ==
    \A ph \in {"out of stock", "in stock", "low stock", "low in stock"} :
        ~Contains(Lower(t), ph)

VoltageAliases ==
    IF IsProduct THEN <<"rated voltage", "operating voltage", "voltage", "vdc">>
    ELSE <<"nominal voltage", "voltage">>

VoltageColumn == IF IsProduct THEN "Voltage (V)" ELSE "Nominal Voltage (V)"

\* An alias matches a key: scrape_product compares both lower-cased and
\* takes a substring in either direction, scrape_battery takes the alias
\* inside the key (equality is the substring of full length).
AliasMatches(alias, key) ==
    IF IsProduct
    THEN Contains(Lower(key), Lower(alias)) \/ Contains(Lower(alias), Lower(key))
    ELSE Contains(key, Lower(alias))

\* The entries of the merged map that alias number a may resolve from.
\* skipEmpty: entries with an empty value do not count.
Candidates(a, skipEmpty) ==
    {i \in 1..Len(all_specs) :
        /\ AliasMatches(VoltageAliases[a], all_specs[i][1])
        /\ skipEmpty => all_specs[i][2] # ""}

\* The field is resolved from the first alias with a candidate, and is ""
\* when no alias has one.
ResolvedByFirstAlias(skipEmpty) ==
    LET field == Field(result.fields, VoltageColumn)
        hits  == {a \in 1..Len(VoltageAliases) : Candidates(a, skipEmpty) # {}}
    IN  IF hits = {} THEN field = ""
        ELSE LET first == CHOOSE a \in hits : \A b \in hits : a <= b
             IN  field \in {clean_number(all_specs[i][2]) : i \in Candidates(first, skipEmpty)}

\* The example of the claim: the merged map holds "operating voltage": "7.4"
\* and "nominal voltage": "11.1", and nothing else.
VoltageExample ==
    /\ Keys(all_specs) = {"operating voltage", "nominal voltage"}
    /\ Lookup(all_specs, "operating voltage") = "7.4"
    /\ Lookup(all_specs, "nominal voltage") = "11.1"

\* C5 as claimed: the voltage field is resolved from the first alias, in
\* declared order, that matches any key of the merged map, a later alias
\* being consulted only when no earlier one matches any key; it is "" when
\* no alias matches; the example resolves to "11.1".
C5_FirstMatchingAlias ==
    ReturnedRecord =>
        /\ ResolvedByFirstAlias(FALSE)
        /\ (IsBattery /\ VoltageExample)
              => Field(result.fields, VoltageColumn) = "11.1"

\* C5 amended: in scrape_product the first alias that matches a key whose
\* value is not empty wins, and a later alias is consulted when the earlier
\* ones match only keys with an empty value; in scrape_battery, which does
\* not look at the value, the first alias that matches any key wins.
C5_FirstAliasWithValue ==
    ReturnedRecord =>
        /\ ResolvedByFirstAlias(IsProduct)
        /\ (IsBattery /\ VoltageExample)
              => Field(result.fields, VoltageColumn) = "11.1"

\* C5 witness: scrape_product resolved the voltage from its second alias
\* although the first alias equals a key, whose value is empty.
C5_Witness ==
    /\ ReturnedRecord /\ IsProduct
    /\ HasKey(all_specs, "rated voltage")
    /\ Lookup(all_specs, "rated voltage") = ""
    /\ HasKey(all_specs, "operating voltage")
    /\ Field(result.fields, "Voltage (V)") = "24"

\* The text after the first number of a value, lower-cased: its unit.
UnitOf(value) ==
    LET s == Strip(value)
        i == SearchStart(s)
        g == GroupStartAt(s, i)
    IN  IF i = 0 THEN "" ELSE Lower(Strip(SubSeq(s, RunEnd(s, g) + 1, Len(s))))

\* The entries of the merged map whose key names a weight other than the
\* shipping weight.
WeightEntries ==
    {i \in 1..Len(all_specs) :
        /\ Contains(Lower(all_specs[i][1]), "weight")
        /\ ~Contains(Lower(all_specs[i][1]), "shipping")}

InGrams(key, value) == Contains(Lower(key), "(g)") \/ UnitOf(value) \in {"g", "gm", "grams"}

InKilograms(key, value) == Contains(Lower(key), "(kg)") \/ UnitOf(value) \in {"kg", "kgs"}

\* C6: when the merged map has one weight entry, Weight (kg) is its number
\* divided by 1000 if its key or value gives grams and its number as it is
\* if they give kilograms: "1500 g" and "1.5 kg" both resolve to "1.5".
C6_WeightInKilograms ==
    (ReturnedRecord /\ IsProduct) =>
        \A i \in WeightEntries :
            LET key   == all_specs[i][1]
                value == all_specs[i][2]
                num   == clean_number(value)
                field == Field(result.fields, "Weight (kg)")
            IN  (WeightEntries = {i} /\ FloatOk(num)) =>
                    /\ (InGrams(key, value) /\ ~InKilograms(key, value))
                          => field = DivThousandStr(num)
                    /\ (InKilograms(key, value) /\ ~InGrams(key, value))
                          => field = num

\* The entries of the merged map that get_no_load_current looks at.
NoLoadEntries ==
    {i \in 1..Len(all_specs) :
        /\ Contains(Lower(all_specs[i][1]), "no")
        /\ Contains(Lower(all_specs[i][1]), "load")
        /\ Contains(Lower(all_specs[i][1]), "current")}

InMilliamps(key, value) == Contains(Lower(key), "(ma)") \/ UnitOf(value) = "ma"

\* C7: when the merged map has one no-load current entry, No Load Current
\* (A) is its number divided by 1000 if its key or value gives milliamps,
\* and its number unchanged if neither does.
C7_NoLoadCurrentInAmps ==
    (ReturnedRecord /\ IsProduct) =>
        \A i \in NoLoadEntries :
            LET key   == all_specs[i][1]
                value == all_specs[i][2]
                num   == clean_number(value)
                field == Field(result.fields, "No Load Current (A)")
            IN  (NoLoadEntries = {i} /\ FloatOk(num)) =>
                    field = IF InMilliamps(key, value) THEN DivThousandStr(num) ELSE num

\* str of 100 * float(val) rounded to the nearest integer.
TimesHundredRoundedStr(val) ==
    LET x == ParseFloat(val)
    IN  NatToStr((2 * x.m * 100 + Pow10(x.e)) \div (2 * Pow10(x.e)))

\* C8: Efficiency (%) is, for a resolved number below 1, 100 times it
\* rounded to the nearest integer, and for a number of 1 or more the
\* resolved text unchanged.
C8_EfficiencyPercent ==
    (ReturnedRecord /\ IsProduct) =>
        LET val   == get_spec(all_specs, <<"efficiency">>, TRUE, FALSE)
            field == Field(result.fields, "Efficiency (%)")
        IN  FloatOk(val) =>
                field = IF LessThanOne(val) THEN TimesHundredRoundedStr(val) ELSE val

\* The entries of the merged map holding combined dimensions: the key says
\* "dimension", is not a shipping key and names no single axis.
CombinedEntries ==
    {i \in 1..Len(all_specs) :
        LET key == Lower(all_specs[i][1])
        IN  /\ Contains(key, "dimension")
            /\ ~Contains(key, "shipping")
            /\ \A x \in {"thickness", "breadth", "length", "width", "height"} :
                  ~Contains(key, x)}

\* C9: the battery Dimensions field is the cleaned value of a combined
\* dimensions entry when the merged map has one; otherwise it is
\* "<thickness> × <breadth> × <length> mm", from the axis fields of the
\* record, exactly when none of the three is empty, and "" when one is.
C9_FullDimensions ==
    (ReturnedRecord /\ IsBattery) =>
        LET field == Field(result.fields, "Dimensions")
            t     == Field(result.fields, "Thickness (mm)")
            b     == Field(result.fields, "Breadth (mm)")
            l     == Field(result.fields, "Length (mm)")
        IN  IF CombinedEntries # {}
            THEN field \in {clean_value(all_specs[i][2]) : i \in CombinedEntries}
            ELSE IF t # "" /\ b # "" /\ l # ""
                 THEN field = t \o " × " \o b \o " × " \o l \o " mm"
                 ELSE field = ""

\* C9 witness: with no combined entry, the field was put together from
\* three axes found one by one.
C9_Witness ==
    /\ ReturnedRecord /\ IsBattery
    /\ CombinedEntries = {}
    /\ Field(result.fields, "Dimensions") = "5 × 30 × 25 mm"

\* A decimal number starts at position i of s: a digit, or a decimal point
\* with a digit after it.
DecimalAt(s, i) ==
    /\ i >= 1 /\ i <= Len(s)
    /\ \/ CharAt(s, i) \in Digits
       \/ CharAt(s, i) = "." /\ i + 1 <= Len(s) /\ CharAt(s, i + 1) \in Digits

\* The readings of the decimal number that starts at position i: digits
\* with at most one decimal point (".5", "5" and "5.5"; before a point that
\* no digit follows, "5" and "5." both count).
DecimalsFrom(s, i) ==
    IF CharAt(s, i) = "." THEN {SubSeq(s, i, ClassRunEnd(s, i + 1, Digits))}
    ELSE LET e == ClassRunEnd(s, i, Digits)
         IN  IF e + 1 <= Len(s) /\ CharAt(s, e + 1) = "."
             THEN IF e + 2 <= Len(s) /\ CharAt(s, e + 2) \in Digits
                  THEN {SubSeq(s, i, ClassRunEnd(s, e + 2, Digits))}
                  ELSE {SubSeq(s, i, e), SubSeq(s, i, e + 1)}
             ELSE {SubSeq(s, i, e)}

\* What C10 says clean_number may return for t: the decimal number of the
\* first run "optional <, > or ~, then a decimal number" of the trimmed
\* text, and the trimmed text when it has none.
FirstDecimal(t) ==
    LET s == Strip(t)
    IN  IF \E i \in 1..Len(s) : DecimalAt(s, i)
        THEN DecimalsFrom(s, CHOOSE i \in 1..Len(s) :
                                 DecimalAt(s, i) /\ \A j \in 1..(i - 1) : ~DecimalAt(s, j))
        ELSE {s}

\* C10: clean_number returns the decimal number of the first run that is an
\* optional comparison prefix and a decimal number, and the trimmed text
\* when there is no such run.
C10_CleanNumber ==
    pc = "returned" => cleaned \in FirstDecimal(text)

\* The conversion get_no_load_current applies: the entry is a no-load
\* current and "ma" occurs in its key or value.
ConvertsMilliamps(key, value) ==
    /\ Contains(Lower(key), "no") /\ Contains(Lower(key), "load")
    /\ Contains(Lower(key), "current")
    /\ Contains(Lower(key), "ma") \/ Contains(Lower(value), "ma")

\* The conversion get_weight applies: a non-shipping weight whose key holds
\* "(g)" and that is not taken for kilograms.
ConvertsGrams(key, value) ==
    /\ Contains(Lower(key), "weight") /\ ~Contains(Lower(key), "shipping")
    /\ ~Contains(Lower(key), "(kg)") /\ ~Contains(Lower(value), "kg")
    /\ Contains(Lower(key), "(g)")

\* C11: when the merged map has one entry, a unit conversion applies to it
\* and its cleaned value is not a number, the field is that cleaned text:
\* for the milliamp conversion of No Load Current (A), the gram conversion
\* of Weight (kg) and the ratio conversion of Efficiency (%).
C11_UnparsableKeptRaw ==
    (ReturnedRecord /\ IsProduct /\ Len(all_specs) = 1) =>
        LET key   == all_specs[1][1]
            value == all_specs[1][2]
            num   == clean_number(value)
        IN  ~FloatOk(num) =>
              /\ ConvertsMilliamps(key, value)
                    => Field(result.fields, "No Load Current (A)") = num
              /\ ConvertsGrams(key, value)
                    => Field(result.fields, "Weight (kg)") = num
              /\ Contains(key, "efficiency")
                    => Field(result.fields, "Efficiency (%)") = num

\* The failed attempts among the first n.
FailedAttempts(n) == {k \in 1..n : ~outcomes[k].ok}

\* What C12 says of every state of a fetch_page call.
FetchAsClaimed ==
    /\ Len(outcomes) <= retries
    /\ \A k \in 1..Len(outcomes) : outcomes[k].ok => k = Len(outcomes)
    /\ pc = "fetch_returned" =>
          /\ html.none <=> (Len(outcomes) = retries /\ FailedAttempts(retries) = 1..retries)
          /\ ~html.none => /\ outcomes # <<>>
                            /\ outcomes[Len(outcomes)] = Succeeded(html.text)
    /\ pc = "fetch_try" =>
          /\ Len(outcomes) = attempt
          /\ slept = [k \in 1..(IF attempt = retries THEN retries - 1 ELSE attempt)
                          |-> 2 ^ (k - 1)]
    /\ pc = "fetch_returned" =>
          LET failures == Cardinality(FailedAttempts(Len(outcomes)))
              waits    == IF failures = retries THEN retries - 1 ELSE failures
          IN  slept = [k \in 1..waits |-> 2 ^ (k - 1)]

\* C12: fetch_page returns, after at most `retries` attempts; it returns
\* the text of the first successful attempt, which is the last attempt made,
\* and None exactly when all `retries` attempts failed; it has slept 2^k
\* seconds after failed attempt k before the next attempt, and not after
\* the last of `retries` failed attempts.
C12_FetchPage == []FetchAsClaimed /\ <>(pc = "fetch_returned")

\* C12 witness: with the default retries, two attempts failed and the third
\* succeeded.
C12_Witness ==
    /\ pc = "fetch_returned"
    /\ retries = DefaultRetries
    /\ ~html.none
    /\ Len(outcomes) = 3
    /\ slept = <<1, 2>>

\* The row csv.reader yields for line k of the sink.
SinkRow(k) == ParseCsvLine(csv_file.lines[k])

\* What C14 says of the sink after a call: one header row, then a row for
\* every record handed over so far, in order, with the declared columns.
SinkAsClaimed ==
    LET columns == ColumnsOf(call.module)
    IN  /\ csv_file.exists
        /\ Len(csv_file.lines) = 1 + Len(written)
        /\ SinkRow(1) = columns
        /\ \A k \in 1..Len(written) :
              SinkRow(k + 1) = [c \in 1..Len(columns) |->
                                  IF HasKey(written[k], columns[c])
                                  THEN Lookup(written[k], columns[c]) ELSE ""]

\* lines p are the first lines of q.
IsPrefix(p, q) == Len(p) <= Len(q) /\ SubSeq(q, 1, Len(p)) = p

\* C14: after every append_to_csv call on a sink that began absent or
\* blank, the sink is one header row of the declared columns followed by a
\* row for every record appended so far, in call order, each with exactly
\* the declared columns and "" for a column the record lacks; and a call
\* leaves the rows written before it in place.
C14_AppendToCsv ==
    /\ [](csv_file \in EmptySinks \/ SinkAsClaimed)
    /\ [][/\ csv_file' \notin EmptySinks
          /\ HasContent(csv_file) => IsPrefix(csv_file.lines, csv_file'.lines)]_vars

\* C14 witness: the sink holds the header and three rows, among them the
\* record with a quoted name and the record that lacks columns.
C14_Witness ==
    /\ pc = "append_to_csv"
    /\ Len(csv_file.lines) = 4
    /\ \E k \in 1..3 : HasKey(written[k], "URL") /\ ~HasKey(written[k], "Stock Status")
    /\ \E k \in 1..3 : /\ HasKey(written[k], "Stock Status")
                        /\ Lookup(written[k], "Product Name") = "Motor, 24V \"HD\""
    /\ SinkRow(1) = ColumnsOf(call.module)

\* How often the returned list holds the data of the scrape of url i.
TimesReturned(i) ==
    Cardinality({k \in 1..Len(scraped_data) :
                    /\ HasKey(scraped_data[k], "URL")
                    /\ Lookup(scraped_data[k], "URL") = urls[i]})

\* The scrape of url i returned a record.
ReturnedARecord(i) == ~futures[i].outcome.raised /\ Truthy(futures[i].outcome.data)

\* The batch as C15 has it once it has returned; Counts(i) says which
\* scrapes count as having returned a record.
BatchAsClaimed(Counts(_)) ==
    pc = "batch_returned" =>
        /\ \A i \in 1..Len(urls) :
              /\ futures[i].scrapes = 1
              /\ TimesReturned(i) = IF Counts(i) THEN 1 ELSE 0
              /\ Counts(i) => \E k \in 1..Len(scraped_data) :
                                  scraped_data[k] = futures[i].outcome.data.fields
        /\ Len(scraped_data) = Cardinality({i \in 1..Len(urls) : Counts(i)})

ReturnedANamedRecord(i) == ~futures[i].outcome.raised /\ HasName(futures[i].outcome.data)

RecordedUrls ==
    IF csv_file \in EmptySinks THEN {}
    ELSE {SinkRow(k)[ColumnIndex(SinkRow(1), "URL")] : k \in 2..Len(csv_file.lines)}

\* The batch of a run has returned and its records are about to be saved.
RunScraped == pc = "batch_returned" /\ listings # <<>>

\* Only urls the sink does not hold were scraped, each once, and the
\* records belong to them.
OnlyNewScraped ==
    RunScraped =>
        /\ \A i \in 1..Len(urls) :
              /\ urls[i] \notin RecordedUrls
              /\ \A j \in 1..Len(urls) : urls[j] = urls[i] => j = i
              /\ TimesReturned(i) <= 1
        /\ \A k \in 1..Len(scraped_data) :
              \E i \in 1..Len(urls) : Lookup(scraped_data[k], "URL") = urls[i]

\* No two rows of the sink have the same url.
NoUrlTwice ==
    pc = "main" /\ csv_file \notin EmptySinks =>
        Cardinality(RecordedUrls) = Len(csv_file.lines) - 1

\* This run had the listing of the run before it.
ListingUnchanged ==
    /\ Len(listings) >= 2
    /\ listings[Len(listings)] = listings[Len(listings) - 1]

\* Every url of the listing of this run is in the sink.
AllRecorded == \A i \in 1..Len(all_product_urls) : all_product_urls[i] \in RecordedUrls

\* C13 as stated: in every run only urls not recorded in the URL column of
\* the sink are scraped, each at most once; the sink never holds two rows
\* with the same url; and a run whose listing is that of the run before it
\* appends no row.
C13_RerunAppendsNothing ==
    /\ OnlyNewScraped
    /\ NoUrlTwice
    /\ RunScraped /\ ListingUnchanged => scraped_data = <<>>

\* C13, amended: in every run only urls not recorded in the URL column of
\* the sink are scraped, each at most once; the sink never holds two rows
\* with the same url; and a run appends no row when every url of its
\* listing is recorded in the sink (a url whose scrape gave no record in an
\* earlier run is scraped again).
C13_RerunAppendsOnlyUnrecorded ==
    /\ OnlyNewScraped
    /\ NoUrlTwice
    /\ RunScraped /\ AllRecorded => scraped_data = <<>>

\* A second run over a listing of two urls, one of them recorded by the
\* first run: only the other one was scraped, and it gave a record.
C13_Witness ==
    /\ RunScraped
    /\ Len(listings) = 2
    /\ Len(all_product_urls) = 2
    /\ Len(csv_file.lines) = 2
    /\ Len(urls) = 1
    /\ Len(scraped_data) = 1

\* A second run over the listing of the first, all of it recorded: the
\* batch was empty.
C13_WitnessRerun ==
    /\ RunScraped
    /\ ListingUnchanged
    /\ all_product_urls # <<>>
    /\ AllRecorded
    /\ urls = <<>>

\* Alias number a is the one the voltage field is resolved from: no alias
\* before it has an entry to resolve from.
Resolving(a) == \A b \in 1..(a - 1) : Candidates(b, IsProduct) = {}

\* The entries whose key equals alias number a and whose value is not empty.
EqualKeys(a) ==
    {i \in 1..Len(all_specs) :
        /\ Lower(all_specs[i][1]) = Lower(VoltageAliases[a])
        /\ all_specs[i][2] # ""}

\* C16: for each alias, get_spec of scrape_product and of scrape_battery
\* resolves from a key of the merged map equal to the alias when there is
\* one, and from a key that contains the alias only when there is none,
\* wherever the keys are in the map (here for the voltage field: when the
\* alias it is resolved from equals a key with a value, the field is the
\* number of that value).
C16_ExactKeyWins ==
    ReturnedRecord =>
        \A a \in 1..Len(VoltageAliases) :
            Resolving(a) =>
                \A i \in EqualKeys(a) :
                    Field(result.fields, VoltageColumn) = clean_number(all_specs[i][2])

\* The alias list of the shipping weight field of each scraper.
ShippingAliases ==
    IF IsProduct THEN <<"shipping weight", "shipping_weight">> ELSE <<"shipping weight">>

\* The entries a shipping weight alias matches. bothWays: the alias inside
\* the key or the key inside the alias; otherwise only the alias inside the
\* key. skipEmpty: entries with an empty value do not count.
ShippingCandidates(bothWays, skipEmpty) ==
    {i \in 1..Len(all_specs) :
        /\ \E a \in 1..Len(ShippingAliases) :
              \/ Contains(Lower(all_specs[i][1]), ShippingAliases[a])
              \/ bothWays /\ Contains(ShippingAliases[a], Lower(all_specs[i][1]))
        /\ skipEmpty => all_specs[i][2] # ""}

\* The shipping weight field is the value of one of the entries its aliases
\* match, and "" when they match none.
ShippingResolved(bothWays, skipEmpty) ==
    LET field == Field(result.fields, "Shipping Weight (kg)")
        cands == ShippingCandidates(bothWays, skipEmpty)
    IN  IF cands = {} THEN field = ""
        ELSE field \in {clean_value(all_specs[i][2]) : i \in cands}

\* C17 as stated: get_spec of scrape_product and of scrape_battery, for a
\* field that does not require exact matching, takes a key that contains
\* the alias or that the alias contains (here for the shipping weight
\* field).
C17_EitherDirectionInBoth == ReturnedRecord => ShippingResolved(TRUE, TRUE)

\* C17, amended: get_spec of scrape_product takes a key that contains the
\* alias or that the alias contains, when its value is not empty; get_spec
\* of scrape_battery takes only a key that contains the alias, whatever its
\* value.
C17_EitherDirectionInProduct ==
    ReturnedRecord => ShippingResolved(IsProduct, IsProduct)

\* scrape_product resolved the shipping weight from the key "weight", which
\* the alias "shipping weight" contains, and the map has no other key.
C17_Witness ==
    /\ ReturnedRecord /\ IsProduct
    /\ Keys(all_specs) = {"weight"}
    /\ Field(result.fields, "Shipping Weight (kg)") = "1.5 kg"

\* scrape_battery over the same map left the shipping weight empty.
C17_WitnessBattery ==
    /\ ReturnedRecord /\ IsBattery
    /\ Keys(all_specs) = {"weight"}
    /\ Lookup(all_specs, "weight") = "1.5 kg"
    /\ Field(result.fields, "Shipping Weight (kg)") = ""

\* The map d with its entries number i and j in each other's place.
Swapped(d, i, j) ==
    [k \in 1..Len(d) |-> IF k = i THEN d[j] ELSE IF k = j THEN d[i] ELSE d[k]]

\* The record the scraper of the call builds over the merged map specs.
RecordOver(specs) ==
    IF IsProduct
    THEN ProductRecord(product_name, RStripChar(call.url, "/"), stock_status, price, specs)
    ELSE BatteryRecord(product_name, RStripChar(call.url, "/"), stock_status, price, specs)

\* The columns get_spec, get_weight, get_no_load_current, get_dimension and
\* get_full_dimensions resolve: all but the efficiency.
ResolvedColumns(fields) == SelectSeq(fields, LAMBDA e : e[1] # "Efficiency (%)")

\* C18: the fields get_spec, get_weight, get_no_load_current, get_dimension
\* and get_full_dimensions resolve depend only on the key/value pairs of
\* the merged map, not on the order of its keys: over the same pairs in
\* another order they are the same.
C18_OrderIndependent ==
    ReturnedRecord =>
        \A i, j \in 1..Len(all_specs) :
            ResolvedColumns(RecordOver(Swapped(all_specs, i, j)))
                = ResolvedColumns(result.fields)

\* The list harvest of the call has run.
ListHarvested == pc \in {"merge", "resolve", "done"}

\* The key and the value of a list item with a colon: what is left and
\* right of its first colon.
ItemKey(t) == Lower(Strip(SubSeq(t, 1, Find(t, ":") - 1)))

ItemValue(t) == Strip(SubSeq(t, Find(t, ":") + 1, Len(t)))

\* The items of the page whose pair is kept when keys of up to longest
\* characters are.
KeptItems(longest) ==
    {i \in 1..Len(page.items) :
        Find(page.items[i], ":") # 0 /\ Len(ItemKey(page.items[i])) <= longest}

\* The list harvest holds the key of every kept item and no other key, each
\* with the value of the last kept item that has it.
ListHarvestIs(longest) ==
    /\ Keys(general_info) = {ItemKey(page.items[i]) : i \in KeptItems(longest)}
    /\ \A i \in KeptItems(longest) :
          LET same == {j \in KeptItems(longest) :
                         ItemKey(page.items[j]) = ItemKey(page.items[i])}
              last == CHOOSE j \in same : \A k \in same : k <= j
          IN  Lookup(general_info, ItemKey(page.items[i])) = ItemValue(page.items[last])

\* C19 as stated: extract_general_info splits each list item with a colon
\* on its first colon, the key being the lower-cased trimmed left part and
\* the value the trimmed right part; it discards the pair only when the key
\* is longer than 50 characters, so a key of exactly 50 characters is kept;
\* of two items with the same key the later one's value is kept.
C19_KeyOfFiftyKept == ListHarvested => ListHarvestIs(50)

\* C19, amended: as above, but the pair is discarded when the key has 50
\* characters or more, so the longest key kept has 49 characters.
C19_KeyOfFiftyDiscarded == ListHarvested => ListHarvestIs(49)

\* The harvest of a list with "Gear Ratio : 1:30", a key of 50 characters
\* and "Gear ratio: 1:50": one pair, "gear ratio" with the later value.
C19_Witness ==
    /\ ListHarvested
    /\ page.items = <<"Gear Ratio : 1:30",
                      "Maximum Continuous Operating Ambient Temperature C: 60",
                      "Gear ratio: 1:50">>
    /\ general_info = << <<"gear ratio", "1:50">> >>

\* A key of 49 characters is kept.
C19_WitnessKept ==
    /\ ListHarvested
    /\ Len(page.items) = 1
    /\ HasKey(general_info, "maximum continuous operating ambient temperatures")

\* The merge of the harvests of the call.
MergedHarvests ==
    IF IsProduct THEN MergeProduct(regex_specs, general_info, spec_table)
    ELSE MergeBattery(general_info, spec_table)

\* After the record is built the merged map is still the merge of the
\* harvests, and the record is the one its resolvers give over that map.
MapKept ==
    ReturnedRecord =>
        /\ all_specs = MergedHarvests
        /\ result.fields = RecordOver(all_specs)

C21_NoEmptyKey ==
    /\ ListHarvested =>
          "" \notin Keys(general_info) \cup Keys(spec_table) \cup Keys(regex_specs)
    /\ pc \in {"resolve", "done"} => "" \notin Keys(all_specs)

=============================================================================
